---- MODULE Spec2Model ----
(***************************************************************************)
(* Model of the Moonshot signup counter view (Home): the paginated fetch   *)
(* cycle (fetchData), the realtime push handler, the periodic timer, the   *)
(* delayed odometer update and the teardown of both effects.               *)
(*                                                                         *)
(* Time unit: one minute.  The source computes in milliseconds; every      *)
(* instant of the model is a whole number of minutes, so 60000 ms is 1.    *)
(* JavaScript numbers are modelled as exact rationals extended with        *)
(* +Infinity, -Infinity and NaN (floating-point rounding is not modelled). *)
(***************************************************************************)
EXTENDS Integers, Sequences, FiniteSets, TLC

\* ---------------------------------------------------------------- bounds
\* Rows the remote table can hold.
MaxRows == 3
\* Fetch cycles (the one started at mount plus timer ticks) in one run.
MaxCycles == 2
\* Page size of the keyset queries; 1000 in the source, scaled down.
PAGE_SIZE == 2
\* Threshold of the pagination safety counter; 100 in the source, scaled down.
SAFETY_LIMIT == 2

\* ------------------------------------------------------------- constants
TARGET_SIGNUPS == 5000
minute == 1
hour == 60 * minute
day == 24 * hour
oneHourMs == hour
EPS_DENOM == 1000000

\* Timestamps and counts a row of the table can carry.
TsValues == {0, 30, 60}
CountValues == {1, 2}
\* Readings of the wall clock (new Date()) a fetch cycle can take.
NowValues == {60, 1500}

NoKey == -1

\* ------------------------------------------------------- JavaScript numbers
\* A number is [n, d]: the rational n/d in lowest terms with d > 0, or
\* d = 0 with n = 1 (+Infinity), n = -1 (-Infinity), n = 0 (NaN).
Abs(x) == IF x < 0 THEN -x ELSE x

Sign(x) == IF x > 0 THEN 1 ELSE IF x < 0 THEN -1 ELSE 0

RECURSIVE Gcd(_, _)
Gcd(a, b) == IF b = 0 THEN a ELSE Gcd(b, a % b)

Num(n, d) ==
    IF d = 0 THEN [n |-> Sign(n), d |-> 0]
    ELSE LET g == Gcd(Abs(n), Abs(d))
             s == IF d < 0 THEN -1 ELSE 1
         IN  [n |-> s * (n \div g), d |-> s * (d \div g)]

FromInt(i) == [n |-> i, d |-> 1]

NaN == [n |-> 0, d |-> 0]

IsNaN(x) == x.d = 0 /\ x.n = 0

IsFinite(x) == x.d > 0

\* a + b
NumAdd(a, b) ==
    IF IsNaN(a) \/ IsNaN(b) THEN NaN
    ELSE IF a.d = 0 /\ b.d = 0 THEN (IF a.n = b.n THEN a ELSE NaN)
    ELSE IF a.d = 0 THEN a
    ELSE IF b.d = 0 THEN b
    ELSE Num(a.n * b.d + b.n * a.d, a.d * b.d)

NumNeg(a) == [n |-> -a.n, d |-> a.d]

\* a - b
NumSub(a, b) == NumAdd(a, NumNeg(b))

\* a * b
NumMul(a, b) ==
    IF IsNaN(a) \/ IsNaN(b) THEN NaN
    ELSE IF a.d = 0 \/ b.d = 0
         THEN (IF a.n = 0 \/ b.n = 0 THEN NaN ELSE [n |-> Sign(a.n) * Sign(b.n), d |-> 0])
    ELSE Num(a.n * b.n, a.d * b.d)

\* a / b
NumDiv(a, b) ==
    IF IsNaN(a) \/ IsNaN(b) THEN NaN
    ELSE IF a.d = 0 /\ b.d = 0 THEN NaN
    ELSE IF a.d = 0 THEN [n |-> a.n * (IF b.n < 0 THEN -1 ELSE 1), d |-> 0]
    ELSE IF b.d = 0 THEN FromInt(0)
    ELSE IF b.n = 0 THEN [n |-> Sign(a.n), d |-> 0]
    ELSE Num(a.n * b.d, a.d * b.n)

\* a > b (false when either is NaN)
NumGt(a, b) ==
    IF IsNaN(a) \/ IsNaN(b) THEN FALSE
    ELSE IF a.d = 0 /\ b.d = 0 THEN a.n > b.n
    ELSE IF a.d = 0 THEN a.n > 0
    ELSE IF b.d = 0 THEN b.n < 0
    ELSE a.n * b.d > b.n * a.d

\* Math.max(a, b): NaN when either is NaN
MathMax(a, b) ==
    IF IsNaN(a) \/ IsNaN(b) THEN NaN
    ELSE IF NumGt(b, a) THEN b ELSE a

\* Math.ceil of a finite number, as an integer
CeilInt(x) == IF x.n % x.d = 0 THEN x.n \div x.d ELSE (x.n \div x.d) + 1

\* Math.floor of a finite number, as an integer
FloorInt(x) == x.n \div x.d

\* ------------------------------------------------- values of a push payload
\* A JavaScript value found in a row's count field: undefined, null, a
\* number or a string (a sequence of characters).
JsUndefined == [k |-> "undefined", n |-> 0, s |-> <<>>]
JsNull == [k |-> "null", n |-> 0, s |-> <<>>]
JsNumber(i) == [k |-> "number", n |-> i, s |-> <<>>]
JsString(chars) == [k |-> "string", n |-> 0, s |-> chars]

Digits == <<"0", "1", "2", "3", "4", "5", "6", "7", "8", "9">>

IsDigit(c) == \E i \in 1..10 : Digits[i] = c

DigitVal(c) == (CHOOSE i \in 1..10 : Digits[i] = c) - 1

RECURSIVE TrimLeft(_)
TrimLeft(chars) ==
    IF chars # <<>> /\ Head(chars) = " " THEN TrimLeft(Tail(chars)) ELSE chars

RECURSIVE TrimRight(_)
TrimRight(chars) ==
    IF chars # <<>> /\ chars[Len(chars)] = " "
    THEN TrimRight(SubSeq(chars, 1, Len(chars) - 1)) ELSE chars

RECURSIVE DecimalValue(_, _)
DecimalValue(chars, acc) ==
    IF chars = <<>> THEN acc
    ELSE DecimalValue(Tail(chars), 10 * acc + DigitVal(Head(chars)))

\* StringToNumber of the language: surrounding white space is dropped, the
\* empty string is 0, an optionally signed run of digits is its decimal
\* value, anything else is NaN.  (Strings of the model hold digits, spaces,
\* signs and letters only.)
StringToNumber(chars) ==
    LET t == TrimRight(TrimLeft(chars))
        signed == t # <<>> /\ Head(t) \in {"+", "-"}
        body == IF signed THEN Tail(t) ELSE t
    IN  IF t = <<>> THEN FromInt(0)
        ELSE IF body = <<>> \/ \E i \in 1..Len(body) : ~IsDigit(body[i]) THEN NaN
        ELSE IF signed /\ Head(t) = "-" THEN FromInt(-DecimalValue(body, 0))
        ELSE FromInt(DecimalValue(body, 0))

\* Number(v)
ToNumber(v) ==
    CASE v.k = "undefined" -> NaN
      [] v.k = "null" -> FromInt(0)
      [] v.k = "number" -> FromInt(v.n)
      [] v.k = "string" -> StringToNumber(v.s)

\* A row of a payload (payload.new, payload.old): nullish (undefined or
\* null), a falsy value that is not nullish (0, "", false), or an object
\* whose count field holds a value.
RowNullish == [k |-> "nullish", count |-> JsUndefined]
RowFalsy == [k |-> "falsy", count |-> JsUndefined]
RowObject(v) == [k |-> "object", count |-> v]

\* The payload handed to the handler: a non-object (null, undefined) or an
\* object with the fields new and old.
Payload(isObj, new, old) == [isObject |-> isObj, new |-> new, old |-> old]

Payloads ==
    { Payload(TRUE, RowObject(JsString(<<"1", "2", "3">>)), RowNullish),
      Payload(TRUE, RowObject(JsString(<<"a", "b", "c">>)), RowObject(JsNumber(2))),
      Payload(TRUE, RowObject(JsString(<<" ", "5", "0", "0", "0">>)), RowNullish),
      Payload(TRUE, RowNullish, RowObject(JsNumber(2))),
      Payload(TRUE, RowNullish, RowNullish),
      Payload(TRUE, RowObject(JsUndefined), RowObject(JsNumber(2))),
      Payload(TRUE, RowObject(JsNull), RowNullish),
      Payload(TRUE, RowFalsy, RowObject(JsNumber(2))),
      Payload(FALSE, RowNullish, RowNullish) }

\* ------------------------------------------------------------ remote table
\* A row of the signups table.  The id is the row's position: the column
\* is an auto-increment primary key and rows are only appended.
TableRow(i, ts, c) == [id |-> i, timestamp |-> ts, count |-> c]

\* What a page keeps of a row: { timestamp, count: Number(r.count ?? 0) }.
RawRow(r) == [timestamp |-> r.timestamp, count |-> r.count]

RowsOf(t) == {t[i] : i \in 1..Len(t)}

KeyOf(hasId, r) == IF hasId THEN r.id ELSE r.timestamp

\* The rows a keyset query selects: all rows when there is no lower bound,
\* else the rows whose key is greater than the bound.
Selected(t, hasId, lastKey) ==
    {r \in RowsOf(t) : lastKey = NoKey \/ KeyOf(hasId, r) > lastKey}

\* The orders in which the backend may return a set of rows under
\* ORDER BY key ASC: every arrangement with non-decreasing keys (rows with
\* equal keys come in an order the backend chooses).
Orderings(S, hasId) ==
    LET n == Cardinality(S)
    IN  {f \in [1..n -> S] :
            /\ \A i, j \in 1..n : i # j => f[i] # f[j]
            /\ \A i \in 1..n : \A j \in 1..n :
                   i < j => KeyOf(hasId, f[i]) <= KeyOf(hasId, f[j])}

Min(a, b) == IF a < b THEN a ELSE b

\* The batches a page query may return: the first PAGE_SIZE rows of the
\* selected rows in key order.
Pages(t, hasId, lastKey) ==
    {SubSeq(o, 1, Min(PAGE_SIZE, Len(o))) : o \in Orderings(Selected(t, hasId, lastKey), hasId)}

\* -------------------------------------------------- the tail of fetchData
Null == [null |-> TRUE]

\* new Date(ts) with minutes, seconds and milliseconds set to 0.  (The
\* model's clock is in a zone whose offset is a whole number of hours.)
TruncHour(ts) == ts - (ts % hour)

\* hourlyMap after the rows from index i on have been set into m: a later
\* row of the same hour overwrites an earlier one.
RECURSIVE HourlyMap(_, _, _)
HourlyMap(rows, i, m) ==
    IF i > Len(rows) THEN m
    ELSE LET h == TruncHour(rows[i].timestamp)
         IN  HourlyMap(rows, i + 1,
                 [k \in (DOMAIN m) \cup {h} |-> IF k = h THEN rows[i].count ELSE m[k]])

EmptyMap == [k \in {} |-> 0]

\* Variant of SortedEntries with the comparator reversed (b[0] - a[0]).
RECURSIVE SortedEntriesDescending(_, _)
SortedEntriesDescending(m, keys) ==
    IF keys = {} THEN <<>>
    ELSE LET k == CHOOSE x \in keys : \A y \in keys : x >= y
         IN  <<[timestamp |-> k, count |-> m[k]]>> \o SortedEntriesDescending(m, keys \ {k})

\* Array.from(hourlyMap.entries()).sort((a, b) => a[0] - b[0]).map(...)
RECURSIVE SortedEntries(_, _)
SortedEntries(m, keys) ==
    IF keys = {} THEN <<>>
    ELSE LET k == CHOOSE x \in keys : \A y \in keys : x <= y
         IN  <<[timestamp |-> k, count |-> m[k]]>> \o SortedEntries(m, keys \ {k})

hourlyData(allRows) ==
    LET m == HourlyMap(allRows, 1, EmptyMap) IN SortedEntries(m, DOMAIN m)

\* The text of lastUpdated: '' | '< 1 min ago' | 'N min ago' |
\* 'Last updated: N day ago' | 'Last updated: N days ago'.
Label(kind, n) == [kind |-> kind, n |-> n]

LabelEmpty == Label("", 0)

LabelLessThanMinute == Label("< 1 min ago", 0)

Max(a, b) == IF a > b THEN a ELSE b

lastUpdatedLabel(latest, now) ==
    LET diffMs == now - latest.timestamp
        diffMins == Max(0, diffMs \div minute)
        days == diffMins \div 1440
    IN  IF diffMins >= 1440
        THEN Label(IF days = 1 THEN "Last updated: N day ago" ELSE "Last updated: N days ago", days)
        ELSE IF diffMins = 0 THEN LabelLessThanMinute ELSE Label("N min ago", diffMins)

\* Variant of BinarySearch that, on an exact match, reports the point
\* before the matching one.
RECURSIVE BinarySearchReportsNeighbour(_, _, _, _)
BinarySearchReportsNeighbour(points, t, lo, hi) ==
    IF lo > hi THEN [found |-> FALSE, idx |-> lo]
    ELSE LET mid == (lo + hi) \div 2
         IN  IF points[mid + 1].timestamp = t THEN [found |-> TRUE, idx |-> mid - 1]
             ELSE IF points[mid + 1].timestamp < t
                  THEN BinarySearchReportsNeighbour(points, t, mid + 1, hi)
                  ELSE BinarySearchReportsNeighbour(points, t, lo, mid - 1)

\* The binary search of interpCount over points[lo..hi] (indices from 0, as
\* in the source): the index of a point whose ts is t, or the final lo.
RECURSIVE BinarySearch(_, _, _, _)
BinarySearch(points, t, lo, hi) ==
    IF lo > hi THEN [found |-> FALSE, idx |-> lo]
    ELSE LET mid == (lo + hi) \div 2
         IN  IF points[mid + 1].timestamp = t THEN [found |-> TRUE, idx |-> mid]
             ELSE IF points[mid + 1].timestamp < t
                  THEN BinarySearch(points, t, mid + 1, hi)
                  ELSE BinarySearch(points, t, lo, mid - 1)

\* Variant of interpCount that returns 0 before the first point.
interpCountZeroBeforeFirst(points, t) ==
    LET n == Len(points)
    IN  IF t < points[1].timestamp THEN FromInt(0)
        ELSE IF t = points[1].timestamp THEN FromInt(points[1].count)
        ELSE IF t >= points[n].timestamp THEN FromInt(points[n].count)
        ELSE LET r == BinarySearch(points, t, 0, n - 1)
             IN  IF r.found THEN FromInt(points[r.idx + 1].count)
                 ELSE LET pL == points[r.idx]
                          pR == points[r.idx + 1]
                          frac == NumDiv(FromInt(t - pL.timestamp),
                                         FromInt(pR.timestamp - pL.timestamp))
                      IN  NumAdd(FromInt(pL.count),
                                 NumMul(FromInt(pR.count - pL.count), frac))

\* Variant of interpCount that measures the fraction from the right point.
interpCountReversedFraction(points, t) ==
    LET n == Len(points)
    IN  IF t <= points[1].timestamp THEN FromInt(points[1].count)
        ELSE IF t >= points[n].timestamp THEN FromInt(points[n].count)
        ELSE LET r == BinarySearch(points, t, 0, n - 1)
             IN  IF r.found THEN FromInt(points[r.idx + 1].count)
                 ELSE LET pL == points[r.idx]
                          pR == points[r.idx + 1]
                          frac == NumDiv(FromInt(pR.timestamp - t),
                                         FromInt(pR.timestamp - pL.timestamp))
                      IN  NumAdd(FromInt(pL.count),
                                 NumMul(FromInt(pR.count - pL.count), frac))

\* interpCount(t) over a non-empty points array
interpCount(points, t) ==
    LET n == Len(points)
    IN  IF t <= points[1].timestamp THEN FromInt(points[1].count)
        ELSE IF t >= points[n].timestamp THEN FromInt(points[n].count)
        ELSE LET r == BinarySearch(points, t, 0, n - 1)
             IN  IF r.found THEN FromInt(points[r.idx + 1].count)
                 ELSE LET pL == points[r.idx]
                          pR == points[r.idx + 1]
                          frac == NumDiv(FromInt(t - pL.timestamp),
                                         FromInt(pR.timestamp - pL.timestamp))
                      IN  NumAdd(FromInt(pL.count),
                                 NumMul(FromInt(pR.count - pL.count), frac))

\* maxPerHour after the windows ending at points[i..] have been evaluated
RECURSIVE PeakLoop(_, _, _)
PeakLoop(points, i, maxPerHour) ==
    IF i > Len(points) THEN maxPerHour
    ELSE LET t == points[i].timestamp
             t0 == t - oneHourMs
             delta == NumSub(interpCount(points, t), interpCount(points, t0))
         IN  PeakLoop(points, i + 1, IF NumGt(delta, maxPerHour) THEN delta ELSE maxPerHour)

\* Variant of peakHourly that returns the increase over the window ending
\* at the last point.
peakHourlyLastWindow(points) ==
    IF Len(points) < 2 THEN FromInt(0)
    ELSE LET t == points[Len(points)].timestamp
         IN  NumSub(interpCount(points, t), interpCount(points, t - oneHourMs))

peakHourly(points) ==
    IF Len(points) < 2 THEN FromInt(0)
    ELSE MathMax(FromInt(0), PeakLoop(points, 1, FromInt(0)))

\* Variant of computeStats that estimates whenever the average is positive,
\* whatever remains to the target.
computeStatsEstimatesPastTarget(allRows, now) ==
    LET latest == allRows[Len(allRows)]
        first == allRows[1]
        hoursDiff == Num(latest.timestamp - first.timestamp, hour)
        avgPerHour == NumDiv(FromInt(latest.count - first.count),
                             MathMax(hoursDiff, Num(1, EPS_DENOM)))
        remaining == TARGET_SIGNUPS - latest.count
        estimate == NumGt(avgPerHour, FromInt(0))
        hoursRemaining == NumDiv(FromInt(remaining), avgPerHour)
    IN  [totalSignups |-> latest.count,
         peakSignupsPerHour |-> FromInt(0),
         averagePerHour |-> avgPerHour,
         estimatedCompletion |->
             IF estimate THEN NumAdd(FromInt(now), NumMul(hoursRemaining, FromInt(hour))) ELSE Null,
         daysRemaining |-> IF estimate THEN CeilInt(NumDiv(hoursRemaining, FromInt(24))) ELSE 0,
         lastDayGrowth |-> 0]

SelectSeqGe(rows, cutoff) == SelectSeq(rows, LAMBDA d : d.timestamp >= cutoff)

\* The object handed to setStats, from the raw rows (at least 2) and the clock.
computeStats(allRows, now) ==
    LET latest == allRows[Len(allRows)]
        first == allRows[1]
        timeDiff == latest.timestamp - first.timestamp
        hoursDiff == Num(timeDiff, hour)
        signupDiff == latest.count - first.count
        avgPerHour == NumDiv(FromInt(signupDiff), MathMax(hoursDiff, Num(1, EPS_DENOM)))
        oneDayAgo == now - day
        recentData == SelectSeqGe(allRows, oneDayAgo)
        lastDayGrowth == IF Len(recentData) > 1
                         THEN recentData[Len(recentData)].count - recentData[1].count
                         ELSE 0
        remaining == TARGET_SIGNUPS - latest.count
        estimate == NumGt(avgPerHour, FromInt(0)) /\ remaining > 0
        hoursRemaining == NumDiv(FromInt(remaining), avgPerHour)
    IN  [totalSignups |-> latest.count,
         peakSignupsPerHour |-> MathMax(FromInt(0), peakHourly(allRows)),
         averagePerHour |-> avgPerHour,
         estimatedCompletion |->
             IF estimate THEN NumAdd(FromInt(now), NumMul(hoursRemaining, FromInt(hour))) ELSE Null,
         daysRemaining |-> IF estimate THEN CeilInt(NumDiv(hoursRemaining, FromInt(24))) ELSE 0,
         lastDayGrowth |-> lastDayGrowth]

\* ---------------------------------------------------- resampleTimeSeries
\* Milliseconds in the model's unit of time (`minute` in the source).
MsPerMinute == 60000

TARGET_POINTS == 240

\* Math.round(a / b) for a >= 0 and b > 0 (halves round up)
RoundDiv(a, b) == (2 * a + b) \div (2 * b)

\* bucketMs for a span, both in minutes.  The last branch is computed in
\* milliseconds, as in the source, so that the roundings round what they
\* round there; its result is a whole number of hours.  A span is a whole
\* number of minutes and a minute is 250 * TARGET_POINTS milliseconds, so
\* span / TARGET_POINTS is a whole number of milliseconds, which Math.ceil
\* leaves as it is.
bucketMsOf(span) ==
    IF span <= hour THEN minute
    ELSE IF span <= day THEN 10 * minute
    ELSE IF span <= 7 * day THEN hour
    ELSE LET hourMs == hour * MsPerMinute
             approx == span * (MsPerMinute \div TARGET_POINTS)
             bucketMs == Max(approx, hourMs)
             approxHours == RoundDiv(bucketMs, hourMs)
         IN  IF approxHours <= 24 THEN approxHours * hour
             ELSE Max(1, RoundDiv(approxHours, 24)) * day

\* An entry of the resampled series: count is a number, or null (absent).
Bucket(t, c) == [timestamp |-> t, absent |-> FALSE, count |-> c]

AbsentBucket(t) == [timestamp |-> t, absent |-> TRUE, count |-> 0]

\* while (j < points.length && ts(points[j]) < bucketStart) j += 1
\* (j counts from 1 here)
RECURSIVE Advance(_, _, _)
Advance(points, j, bucketStart) ==
    IF j <= Len(points) /\ points[j].timestamp < bucketStart
    THEN Advance(points, j + 1, bucketStart)
    ELSE j

\* Variant of BucketStep that puts the count of the next point into a
\* bucket that holds no point.
BucketStepFillsGaps(points, t, bucketMs, j) ==
    LET k == Advance(points, j, t)
    IN  IF /\ k <= Len(points)
           /\ points[k].timestamp >= t
           /\ points[k].timestamp < t + bucketMs
        THEN [j |-> k + 1, resampled |-> <<Bucket(t, points[k].count)>>]
        ELSE IF k <= Len(points)
             THEN [j |-> k, resampled |-> <<Bucket(t, points[k].count)>>]
             ELSE [j |-> k, resampled |-> <<AbsentBucket(t)>>]

\* The last point at or after index k whose timestamp is below bucketEnd.
RECURSIVE LastBelow(_, _, _)
LastBelow(points, k, bucketEnd) ==
    IF k < Len(points) /\ points[k + 1].timestamp < bucketEnd
    THEN LastBelow(points, k + 1, bucketEnd)
    ELSE k

\* Variant of BucketStep that puts the count of the last point of the
\* bucket into it.
BucketStepTakesLatest(points, t, bucketMs, j) ==
    LET k == Advance(points, j, t)
    IN  IF /\ k <= Len(points)
           /\ points[k].timestamp >= t
           /\ points[k].timestamp < t + bucketMs
        THEN LET l == LastBelow(points, k, t + bucketMs)
             IN  [j |-> l + 1, resampled |-> <<Bucket(t, points[l].count)>>]
        ELSE [j |-> k, resampled |-> <<AbsentBucket(t)>>]

\* The body of the bucket loop for the bucket starting at t, entered with
\* the pointer at j: the pointer it leaves and the entry it pushes.
BucketStep(points, t, bucketMs, j) ==
    LET k == Advance(points, j, t)
    IN  IF /\ k <= Len(points)
           /\ points[k].timestamp >= t
           /\ points[k].timestamp < t + bucketMs
        THEN [j |-> k + 1, resampled |-> <<Bucket(t, points[k].count)>>]
        ELSE [j |-> k, resampled |-> <<AbsentBucket(t)>>]

\* The iterations lo..hi of the bucket loop (iteration i has
\* t = firstTs + i * bucketMs), entered with the pointer at j.  The
\* iterations run in order; the range is halved, and the first half is
\* evaluated before the second (the test a.j >= j, which always holds, sees
\* to that), only to keep the evaluation shallow.
RECURSIVE BucketLoop(_, _, _, _, _, _)
BucketLoop(points, firstTs, bucketMs, lo, hi, j) ==
    IF lo > hi THEN [j |-> j, resampled |-> <<>>]
    ELSE IF lo = hi THEN BucketStep(points, firstTs + lo * bucketMs, bucketMs, j)
    ELSE LET mid == (lo + hi) \div 2
             a == BucketLoop(points, firstTs, bucketMs, lo, mid, j)
             b == BucketLoop(points, firstTs, bucketMs, mid + 1, hi, a.j)
         IN  IF a.j >= j
             THEN [j |-> b.j, resampled |-> a.resampled \o b.resampled]
             ELSE [j |-> j, resampled |-> <<>>]

\* Variant of resampleTimeSeries whose loop runs while t < lastTs.
resampleTimeSeriesStopsBeforeLast(points) ==
    IF Len(points) = 0 THEN <<>>
    ELSE LET firstTs == points[1].timestamp
             lastTs == points[Len(points)].timestamp
             span == lastTs - firstTs
             bucketMs == bucketMsOf(span)
             passes == {i \in 0..span : firstTs + i * bucketMs < lastTs}
         IN  BucketLoop(points, firstTs, bucketMs, 0, Cardinality(passes) - 1, 1).resampled

\* The first iteration, among lo..hi, whose t = firstTs + i * bucketMs fails
\* the loop test t <= lastTs (t grows with i, and iteration hi fails it).
RECURSIVE LoopEnd(_, _, _, _, _)
LoopEnd(firstTs, lastTs, bucketMs, lo, hi) ==
    IF lo >= hi THEN hi
    ELSE LET mid == (lo + hi) \div 2
         IN  IF firstTs + mid * bucketMs <= lastTs
             THEN LoopEnd(firstTs, lastTs, bucketMs, mid + 1, hi)
             ELSE LoopEnd(firstTs, lastTs, bucketMs, lo, mid)

\* for (let t = firstTs; t <= lastTs; t += bucketMs): the iterations are
\* those before the first whose t fails the test t <= lastTs.
resampleTimeSeries(points) ==
    IF Len(points) = 0 THEN <<>>
    ELSE LET firstTs == points[1].timestamp
             lastTs == points[Len(points)].timestamp
             span == lastTs - firstTs
             bucketMs == bucketMsOf(span)
             end == IF firstTs <= lastTs
                    THEN LoopEnd(firstTs, lastTs, bucketMs, 0, span + 1)
                    ELSE 0
         IN  BucketLoop(points, firstTs, bucketMs, 0, end - 1, 1).resampled

\* ----------------------------------------------------- interpolateAtIndex
\* resampled.map((d, i) => ({ ...d, index: i })); entry k has index k - 1.
chartData(resampled) ==
    [k \in 1..Len(resampled) |->
        [timestamp |-> resampled[k].timestamp, absent |-> resampled[k].absent,
         count |-> resampled[k].count, index |-> k - 1]]

\* The value interpolateAtIndex returns: a number, or null ('No data').
Interp(v) == [nodata |-> FALSE, value |-> v]

NoData == [nodata |-> TRUE, value |-> 0]

\* while (left >= 0 && count of chartData[left] is null) left -= 1
\* (entries count from 1 here, so the scan ends at 0)
RECURSIVE ScanLeft(_, _)
ScanLeft(chart, left) ==
    IF left >= 1 /\ chart[left].absent THEN ScanLeft(chart, left - 1) ELSE left

\* while (right < chartData.length && count of chartData[right] is null) right += 1
RECURSIVE ScanRight(_, _)
ScanRight(chart, right) ==
    IF right <= Len(chart) /\ chart[right].absent THEN ScanRight(chart, right + 1) ELSE right

\* Math.round(a / b) for b > 0 and any a (halves round up)
RoundRatio(a, b) == (2 * a + b) \div (2 * b)

\* Variant of interpolateAtIndex that looks at the two adjacent entries
\* only.
interpolateAtIndexAdjacentOnly(chart, i) ==
    LET left == i - 1
        right == i + 1
        leftNull == left < 1 \/ chart[left].absent
        rightNull == right > Len(chart) \/ chart[right].absent
    IN  IF leftNull /\ rightNull THEN NoData
        ELSE IF leftNull THEN Interp(chart[right].count)
        ELSE IF rightNull THEN Interp(chart[left].count)
        ELSE Interp(RoundRatio(chart[left].count + chart[right].count, 2))

\* interpolateAtIndex(idx) for the whole number idx = i - 1.
interpolateAtIndex(chart, i) ==
    LET left == ScanLeft(chart, i - 1)
        right == ScanRight(chart, i + 1)
        leftNull == left < 1
        rightNull == right > Len(chart)
    IN  IF leftNull /\ rightNull THEN NoData
        ELSE IF leftNull THEN Interp(chart[right].count)
        ELSE IF rightNull THEN Interp(chart[left].count)
        ELSE LET leftVal == chart[left].count
                 rightVal == chart[right].count
             IN  Interp(RoundRatio(leftVal * (right - left) + (rightVal - leftVal) * (i - left),
                                   right - left))

\* ------------------------------------------------------------------ state
VARIABLES
    table,          \* the rows of the remote signups table, in insertion order
    cyc,            \* the invocations of fetchData: cyc[c] is the c-th one
    data,           \* useState: hourly series for the chart
    currentCount,   \* useState: the displayed count
    lastUpdated,    \* useState: the last-updated text
    loading,        \* useState: the loading flag
    stats,          \* useState: the Stats snapshot or Null
    timeRange,      \* useState: the selected range
    interval,       \* TRUE while the setInterval timer is armed
    channel,        \* "subscribed" | "removed" | "unsubscribed"
    mounted,        \* FALSE once the effects' cleanups have run
    finished,       \* history: the cycles that ended, in the order they ended
    evt,            \* history: the handler that ran last, and its cycle
    calc            \* a series handed to the statistics functions, and their results

vars == <<table, cyc, data, currentCount, lastUpdated, loading, stats, timeRange,
          interval, channel, mounted, finished, evt, calc>>

view == <<data, currentCount, lastUpdated, loading, stats>>

Cycles == 1..MaxCycles

TimeRanges == {"all", "7d", "24h", "1h"}

\* A fetchData invocation: where it is suspended, its locals, the state of
\* its 300 ms timeout, the page query it awaits (query: the column of its
\* ORDER BY and the bound of its gt filter, NoKey when it has none), and
\* history fields (requests: page queries issued;
\* errored: a page query returned an error; faulty: the backend returned a
\* page that ignores the lower bound; grown: the table changed since the
\* cycle started; end: how the invocation ended).
IdleCycle ==
    [pc |-> "idle", hasId |-> FALSE, lastKey |-> NoKey, safety |-> 0, allRows |-> <<>>,
     timer |-> "none", query |-> [orderBy |-> "none", gt |-> NoKey], requests |-> 0, errored |-> FALSE, faulty |-> FALSE,
     grown |-> FALSE, end |-> "none"]

StartedCycle == [IdleCycle EXCEPT !.pc = "probe"]

Event(name, c) == [name |-> name, c |-> c]

RECURSIVE TablesOfLen(_)
TablesOfLen(n) ==
    IF n = 0 THEN {<<>>}
    ELSE {Append(t, TableRow(n, ts, c)) : t \in TablesOfLen(n - 1), ts \in TsValues, c \in CountValues}

Tables == UNION {TablesOfLen(n) : n \in 0..MaxRows}

\* No series has been handed to the statistics functions.
NoCalc ==
    [series |-> <<>>, evals |-> <<>>, peak |-> Null,
     charted |-> FALSE, bucketMs |-> 0, resampled |-> <<>>, tip |-> Null,
     now |-> 0, stats |-> Null]

\* The state after the first render and both effects: fetchData() has been
\* called once and awaits the probe, the interval is armed, the channel is
\* subscribed.
InitWith(T) ==
    /\ table \in T
    /\ cyc = [c \in Cycles |-> IF c = 1 THEN StartedCycle ELSE IdleCycle]
    /\ data = <<>>
    /\ currentCount = 0
    /\ lastUpdated = LabelEmpty
    /\ loading = TRUE
    /\ stats = Null
    /\ timeRange = "all"
    /\ interval = TRUE
    /\ channel = "subscribed"
    /\ mounted = TRUE
    /\ finished = <<>>
    /\ evt = Event("mount", 1)
    /\ calc = NoCalc

\* ------------------------------------------------------------- fetchData
\* Variant of AfterPagination that, with no rows, also empties the series
\* and the stats.
AfterPaginationClearsOnEmpty(c, cur, now) ==
    LET rows == cur.allRows
        latest == rows[Len(rows)]
    IN  /\ loading' = FALSE
        /\ IF Len(rows) = 0
           THEN /\ data' = <<>>
                /\ stats' = Null
                /\ UNCHANGED <<currentCount, lastUpdated>>
                /\ cyc' = [cyc EXCEPT ![c] = [cur EXCEPT !.pc = "done", !.end = "empty"]]
           ELSE /\ data' = hourlyData(rows)
                /\ currentCount' = latest.count
                /\ lastUpdated' = lastUpdatedLabel(latest, now)
                /\ stats' = IF Len(rows) > 1 THEN computeStats(rows, now) ELSE stats
                /\ cyc' = [cyc EXCEPT ![c] =
                              [cur EXCEPT !.pc = "done", !.end = "committed", !.timer = "pending"]]
        /\ finished' = Append(finished, c)
        /\ evt' = Event("fetched", c)
        /\ UNCHANGED calc

\* Variant of AfterPagination that computes the stats from a single row too.
AfterPaginationStatsOnOneRow(c, cur, now) ==
    LET rows == cur.allRows
        latest == rows[Len(rows)]
    IN  /\ loading' = FALSE
        /\ IF Len(rows) = 0
           THEN /\ UNCHANGED <<data, currentCount, lastUpdated, stats>>
                /\ cyc' = [cyc EXCEPT ![c] = [cur EXCEPT !.pc = "done", !.end = "empty"]]
           ELSE /\ data' = hourlyData(rows)
                /\ currentCount' = latest.count
                /\ lastUpdated' = lastUpdatedLabel(latest, now)
                /\ stats' = computeStats(rows, now)
                /\ cyc' = [cyc EXCEPT ![c] =
                              [cur EXCEPT !.pc = "done", !.end = "committed", !.timer = "pending"]]
        /\ finished' = Append(finished, c)
        /\ evt' = Event("fetched", c)
        /\ UNCHANGED calc

\* Variant of AfterPagination that sets the series only while it is empty.
AfterPaginationKeepsSeries(c, cur, now) ==
    LET rows == cur.allRows
        latest == rows[Len(rows)]
    IN  /\ loading' = FALSE
        /\ IF Len(rows) = 0
           THEN /\ UNCHANGED <<data, currentCount, lastUpdated, stats>>
                /\ cyc' = [cyc EXCEPT ![c] = [cur EXCEPT !.pc = "done", !.end = "empty"]]
           ELSE /\ data' = IF data = <<>> THEN hourlyData(rows) ELSE data
                /\ currentCount' = latest.count
                /\ lastUpdated' = lastUpdatedLabel(latest, now)
                /\ stats' = IF Len(rows) > 1 THEN computeStats(rows, now) ELSE stats
                /\ cyc' = [cyc EXCEPT ![c] =
                              [cur EXCEPT !.pc = "done", !.end = "committed", !.timer = "pending"]]
        /\ finished' = Append(finished, c)
        /\ evt' = Event("fetched", c)
        /\ UNCHANGED calc

\* The statements of fetchData after the pagination loop, run without
\* suspension: with no rows only the loading flag is cleared; otherwise the
\* hourly series, the count, the label and (with more than one row) the
\* stats are set and the 300 ms timeout is scheduled.
AfterPagination(c, cur, now) ==
    LET rows == cur.allRows
        latest == rows[Len(rows)]
    IN  /\ loading' = FALSE
        /\ IF Len(rows) = 0
           THEN /\ UNCHANGED <<data, currentCount, lastUpdated, stats>>
                /\ cyc' = [cyc EXCEPT ![c] = [cur EXCEPT !.pc = "done", !.end = "empty"]]
           ELSE /\ data' = hourlyData(rows)
                /\ currentCount' = latest.count
                /\ lastUpdated' = lastUpdatedLabel(latest, now)
                /\ stats' = IF Len(rows) > 1 THEN computeStats(rows, now) ELSE stats
                /\ cyc' = [cyc EXCEPT ![c] =
                              [cur EXCEPT !.pc = "done", !.end = "committed", !.timer = "pending"]]
        /\ finished' = Append(finished, c)
        /\ evt' = Event("fetched", c)
        /\ UNCHANGED calc

\* Variant of the catch block that only logs the error.
CaughtKeepsLoading(c) ==
    /\ cyc' = [cyc EXCEPT ![c] = [@ EXCEPT !.pc = "done", !.end = "thrown"]]
    /\ finished' = Append(finished, c)
    /\ evt' = Event("caught", c)
    /\ UNCHANGED calc
    /\ UNCHANGED <<data, currentCount, lastUpdated, loading, stats>>

\* catch (error) { setLoading(false) }
Caught(c) ==
    /\ loading' = FALSE
    /\ cyc' = [cyc EXCEPT ![c] = [@ EXCEPT !.pc = "done", !.end = "thrown"]]
    /\ finished' = Append(finished, c)
    /\ evt' = Event("caught", c)
    /\ UNCHANGED calc
    /\ UNCHANGED <<data, currentCount, lastUpdated, stats>>

\* The page query of the strategy in use: order(key).limit(PAGE_SIZE), with
\* gt(key, last) once a page has been read.
PageQuery(cur) ==
    [orderBy |-> IF cur.hasId THEN "id" ELSE "timestamp",
     gt |-> IF cur.lastKey # NoKey THEN cur.lastKey ELSE NoKey]

\* Variant of NextRequest whose query never carries a lower bound.
NextRequestWithoutBound(c, cur) ==
    /\ cyc' = [cyc EXCEPT ![c] = [cur EXCEPT !.pc = "page", !.requests = @ + 1,
                                             !.query = [PageQuery(cur) EXCEPT !.gt = NoKey]]]
    /\ evt' = Event("request", c)
    /\ UNCHANGED calc
    /\ UNCHANGED <<view, finished>>

\* The query of the next page is built and awaited.
NextRequest(c, cur) ==
    /\ cyc' = [cyc EXCEPT ![c] = [cur EXCEPT !.pc = "page", !.requests = @ + 1,
                                             !.query = PageQuery(cur)]]
    /\ evt' = Event("request", c)
    /\ UNCHANGED calc
    /\ UNCHANGED <<view, finished>>

\* The probe returns (with or without an error): the strategy is fixed and
\* the first page is requested.
ProbeReturns(c, probeError) ==
    /\ cyc[c].pc = "probe"
    /\ NextRequest(c, [cyc[c] EXCEPT !.hasId = ~probeError])
    /\ UNCHANGED <<table, timeRange, interval, channel, mounted>>

\* An awaited query rejects: control passes to the catch block.
QueryThrows(c) ==
    /\ cyc[c].pc \in {"probe", "page"}
    /\ Caught(c)
    /\ UNCHANGED <<table, timeRange, interval, channel, mounted>>

\* Variant of PageError that gives up on an error (clears the loading flag
\* and returns) instead of keeping the rows collected so far.
PageErrorDiscards(c, now) ==
    /\ cyc[c].pc = "page"
    /\ loading' = FALSE
    /\ cyc' = [cyc EXCEPT ![c] = [@ EXCEPT !.pc = "done", !.errored = TRUE, !.end = "empty"]]
    /\ finished' = Append(finished, c)
    /\ evt' = Event("fetched", c)
    /\ UNCHANGED calc
    /\ UNCHANGED <<data, currentCount, lastUpdated, stats>>
    /\ UNCHANGED <<table, timeRange, interval, channel, mounted>>

\* A page query returns an error: the loop is left with the rows so far.
PageError(c, now) ==
    /\ cyc[c].pc = "page"
    /\ AfterPagination(c, [cyc[c] EXCEPT !.errored = TRUE], now)
    /\ UNCHANGED <<table, timeRange, interval, channel, mounted>>

\* Variant of BatchArrives that also leaves the loop after a page shorter
\* than PAGE_SIZE.
BatchArrivesStopsOnShortPage(c, cur, batch, now) ==
    IF Len(batch) = 0
    THEN AfterPagination(c, cur, now)
    ELSE LET next == [cur EXCEPT
                         !.allRows = @ \o [i \in 1..Len(batch) |-> RawRow(batch[i])],
                         !.lastKey = KeyOf(cur.hasId, batch[Len(batch)]),
                         !.safety = @ + 1]
         IN  IF next.safety > SAFETY_LIMIT \/ Len(batch) < PAGE_SIZE
             THEN AfterPagination(c, next, now)
             ELSE NextRequest(c, next)

\* The body of the loop once a batch has arrived without error.
BatchArrives(c, cur, batch, now) ==
    IF Len(batch) = 0
    THEN AfterPagination(c, cur, now)
    ELSE LET next == [cur EXCEPT
                         !.allRows = @ \o [i \in 1..Len(batch) |-> RawRow(batch[i])],
                         !.lastKey = KeyOf(cur.hasId, batch[Len(batch)]),
                         !.safety = @ + 1]
         IN  IF next.safety > SAFETY_LIMIT
             THEN AfterPagination(c, next, now)
             ELSE NextRequest(c, next)

\* A page query returns the batch the query asks for.
PageReturns(c, now) ==
    /\ cyc[c].pc = "page"
    /\ \E batch \in Pages(table, cyc[c].query.orderBy = "id", cyc[c].query.gt) :
           BatchArrives(c, cyc[c], batch, now)
    /\ UNCHANGED <<table, timeRange, interval, channel, mounted>>

\* A backend with a pagination bug returns the first page again, whatever
\* the lower bound of the query.
PageRepeats(c, now) ==
    /\ cyc[c].pc = "page"
    /\ cyc[c].lastKey # NoKey
    /\ \E batch \in Pages(table, cyc[c].hasId, NoKey) :
           BatchArrives(c, [cyc[c] EXCEPT !.faulty = TRUE], batch, now)
    /\ UNCHANGED <<table, timeRange, interval, channel, mounted>>

\* setTimeout(() => setCurrentCount(latest.count), 300) fires.
TimeoutFires(c) ==
    /\ cyc[c].timer = "pending"
    /\ currentCount' = cyc[c].allRows[Len(cyc[c].allRows)].count
    /\ cyc' = [cyc EXCEPT ![c].timer = "fired"]
    /\ evt' = Event("timeout", c)
    /\ UNCHANGED calc
    /\ UNCHANGED <<table, data, lastUpdated, loading, stats, timeRange, interval, channel,
                   mounted, finished>>

\* setInterval(fetchData, 60000) fires: a new invocation of fetchData
\* starts, whether or not an earlier one is still in flight.
IntervalFires(c) ==
    /\ interval
    /\ cyc[c].pc = "idle"
    /\ \A b \in Cycles : b < c => cyc[b].pc # "idle"
    /\ cyc' = [cyc EXCEPT ![c] = StartedCycle]
    /\ evt' = Event("interval", c)
    /\ UNCHANGED calc
    /\ UNCHANGED <<table, view, timeRange, interval, channel, mounted, finished>>

\* ------------------------------------------------------- realtime handler
\* Variant of the callback that also writes the count into the stats.
postgres_changesPatchesStats(payload) ==
    LET rec == IF payload.new.k = "nullish" THEN payload.old ELSE payload.new
        newCount == ToNumber(rec.count)
    IN  IF /\ payload.isObject
           /\ rec.k = "object"
           /\ ~IsNaN(newCount)
        THEN /\ currentCount' = newCount.n
             /\ lastUpdated' = LabelLessThanMinute
             /\ stats' = IF stats = Null THEN stats ELSE [stats EXCEPT !.totalSignups = newCount.n]
             /\ UNCHANGED <<data, loading, timeRange>>
        ELSE UNCHANGED <<data, currentCount, lastUpdated, loading, stats, timeRange>>

\* Variant of the callback without the isNaN test.
postgres_changesNoNaNTest(payload) ==
    LET rec == IF payload.new.k = "nullish" THEN payload.old ELSE payload.new
        newCount == ToNumber(rec.count)
    IN  IF /\ payload.isObject
           /\ rec.k = "object"
        THEN /\ currentCount' = newCount.n
             /\ lastUpdated' = LabelLessThanMinute
             /\ UNCHANGED <<data, loading, stats, timeRange>>
        ELSE UNCHANGED <<data, currentCount, lastUpdated, loading, stats, timeRange>>

\* The postgres_changes callback.
postgres_changes(payload) ==
    LET rec == IF payload.new.k = "nullish" THEN payload.old ELSE payload.new
        newCount == ToNumber(rec.count)
    IN  IF /\ payload.isObject
           /\ rec.k = "object"
           /\ ~IsNaN(newCount)
        THEN /\ currentCount' = newCount.n
             /\ lastUpdated' = LabelLessThanMinute
             /\ UNCHANGED <<data, loading, stats, timeRange>>
        ELSE UNCHANGED <<data, currentCount, lastUpdated, loading, stats, timeRange>>

\* The channel delivers a row change to the callback.
PushArrives(payload) ==
    /\ channel = "subscribed"
    /\ postgres_changes(payload)
    /\ evt' = Event("push", 0)
    /\ UNCHANGED calc
    /\ UNCHANGED <<table, cyc, interval, channel, mounted, finished>>

\* ---------------------------------------------------------------- render
\* What the "Estimated completion" field shows: a skeleton, the formatted
\* date of the estimate, "Completed" or "-".
EstimatedCompletionField ==
    IF loading THEN [skeleton |-> TRUE]
    ELSE IF stats # Null /\ stats.estimatedCompletion # Null
         THEN [date |-> stats.estimatedCompletion]
    ELSE IF currentCount >= TARGET_SIGNUPS THEN [text |-> "Completed"]
    ELSE [text |-> "-"]

\* ------------------------------------------------------------ environment
\* A range button is clicked.
SetTimeRange(r) ==
    /\ mounted
    /\ timeRange' = r
    /\ evt' = Event("range", 0)
    /\ UNCHANGED calc
    /\ UNCHANGED <<table, cyc, view, interval, channel, mounted, finished>>

\* The scheduled remote job appends a row to the table.
JobAppends(ts, c) ==
    /\ Len(table) < MaxRows
    /\ table' = Append(table, TableRow(Len(table) + 1, ts, c))
    /\ cyc' = [k \in Cycles |-> IF cyc[k].pc = "idle" THEN cyc[k] ELSE [cyc[k] EXCEPT !.grown = TRUE]]
    /\ evt' = Event("job", 0)
    /\ UNCHANGED calc
    /\ UNCHANGED <<view, timeRange, interval, channel, mounted, finished>>

\* Variant of Teardown that does not clear the interval.
TeardownKeepsInterval(removeThrows) ==
    /\ mounted
    /\ mounted' = FALSE
    /\ channel' = IF removeThrows THEN "unsubscribed" ELSE "removed"
    /\ evt' = Event("teardown", 0)
    /\ UNCHANGED calc
    /\ UNCHANGED <<table, cyc, view, timeRange, interval, finished>>

\* The view is torn down: both effects' cleanups run.  removeChannel may
\* throw, and then the channel is unsubscribed instead.
Teardown(removeThrows) ==
    /\ mounted
    /\ mounted' = FALSE
    /\ interval' = FALSE
    /\ channel' = IF removeThrows THEN "unsubscribed" ELSE "removed"
    /\ evt' = Event("teardown", 0)
    /\ UNCHANGED calc
    /\ UNCHANGED <<table, cyc, view, timeRange, finished>>

\* --------------------------------------------- the statistics functions
\* Timestamps and counts of the points of a series handed to interpCount
\* and peakHourly, the greatest length of such a series, and the instants
\* at which interpCount is evaluated.
MaxPoints == 4

PointTs == {0, 30, 60, 120}

PointCounts == {0, 2, 3}

Instants == {-30, 0, 15, 30, 45, 60, 90, 120, 150}

RECURSIVE SeriesOfLen(_)
SeriesOfLen(n) ==
    IF n = 0 THEN {<<>>}
    ELSE {Append(s, [timestamp |-> ts, count |-> c]) :
              s \in SeriesOfLen(n - 1), ts \in PointTs, c \in PointCounts}

AllSeries == UNION {SeriesOfLen(n) : n \in 0..MaxPoints}

\* points sorted by timestamp (points of equal timestamp in any order)
Sorted(s) == \A i \in 1..Len(s) : \A j \in 1..Len(s) : i < j => s[i].timestamp <= s[j].timestamp

SortedSeries == {s \in AllSeries : s # <<>> /\ Sorted(s)}

\* The view as constructed, over an empty table, and a series from S.
InitCalc(S) ==
    /\ table = <<>>
    /\ cyc = [c \in Cycles |-> IF c = 1 THEN StartedCycle ELSE IdleCycle]
    /\ data = <<>>
    /\ currentCount = 0
    /\ lastUpdated = LabelEmpty
    /\ loading = TRUE
    /\ stats = Null
    /\ timeRange = "all"
    /\ interval = TRUE
    /\ channel = "subscribed"
    /\ mounted = TRUE
    /\ finished = <<>>
    /\ evt = Event("mount", 1)
    /\ calc \in {[NoCalc EXCEPT !.series = s] : s \in S}

\* interpCount(t) is evaluated; the last two evaluations are kept.
ValueAt(t) ==
    /\ calc.series # <<>>
    /\ LET e == [t |-> t, value |-> interpCount(calc.series, t)]
       IN  calc' = [calc EXCEPT !.evals = IF Len(@) = 2 THEN <<@[2], e>> ELSE Append(@, e)]
    /\ UNCHANGED <<table, cyc, view, timeRange, interval, channel, mounted, finished, evt>>

\* peakHourly is evaluated.
Peak ==
    /\ calc.peak = Null
    /\ calc' = [calc EXCEPT !.peak = peakHourly(calc.series)]
    /\ UNCHANGED <<table, cyc, view, timeRange, interval, channel, mounted, finished, evt>>

\* Timestamps and counts of the points handed to resampleTimeSeries, and
\* the greatest number of points.
MaxSamples == 3

SampleTs == {0, 1, 60, 600, 21600, 21660}

SampleCounts == {1, 2}

RECURSIVE SamplesOfLen(_)
SamplesOfLen(n) ==
    IF n = 0 THEN {<<>>}
    ELSE {Append(s, [timestamp |-> ts, count |-> c]) :
              s \in SamplesOfLen(n - 1), ts \in SampleTs, c \in SampleCounts}

SortedSamples == {s \in UNION {SamplesOfLen(n) : n \in 0..MaxSamples} : Sorted(s)}

\* Spans of the inputs on which the choice of the bucket width is examined:
\* the spans around each threshold, ten days, and every whole number of
\* days from 8 to MaxSpanDays.
MaxSpanDays == 360

SpanValues ==
    {0, 1, 59, 60, 61, 600, 1439, 1440, 1441, 10079, 10080, 10081}
        \cup {d * day : d \in 8..MaxSpanDays}

\* Two points a given span apart.
SpanSamples ==
    {<<[timestamp |-> 0, count |-> 1], [timestamp |-> S, count |-> 2]>> : S \in SpanValues}

\* The chart is rendered: resampleTimeSeries is evaluated (bucketMs records
\* the width it chose).
Resample ==
    /\ ~calc.charted
    /\ calc' = [calc EXCEPT
                    !.charted = TRUE,
                    !.bucketMs = IF calc.series = <<>> THEN 0
                                 ELSE bucketMsOf(calc.series[Len(calc.series)].timestamp
                                                     - calc.series[1].timestamp),
                    !.resampled = resampleTimeSeries(calc.series)]
    /\ UNCHANGED <<table, cyc, view, timeRange, interval, channel, mounted, finished, evt>>

\* Every sorted input of resampleTimeSeries.
NextResample == Resample

\* The tooltip is shown over the k-th bucket, whose count is null: the
\* formatter calls interpolateAtIndex with the bucket's index.
Hover(k) ==
    /\ calc.charted
    /\ k \in 1..Len(calc.resampled)
    /\ calc.resampled[k].absent
    /\ calc' = [calc EXCEPT !.tip = [index |-> k - 1,
                                     interp |-> interpolateAtIndex(chartData(calc.resampled), k)]]
    /\ UNCHANGED <<table, cyc, view, timeRange, interval, channel, mounted, finished, evt>>

\* Timestamps of the points of the charts that are hovered over.
HoverTs == {0, 1, 5, 12}

RECURSIVE HoverSamplesOfLen(_)
HoverSamplesOfLen(n) ==
    IF n = 0 THEN {<<>>}
    ELSE {Append(s, [timestamp |-> ts, count |-> c]) :
              s \in HoverSamplesOfLen(n - 1), ts \in HoverTs, c \in SampleCounts}

HoverSamples == {s \in UNION {HoverSamplesOfLen(n) : n \in 0..MaxSamples} : Sorted(s)}

\* The chart is rendered and the tooltip moves over its empty buckets.
NextHover ==
    \/ Resample
    \/ \E k \in 1..Len(calc.resampled) : Hover(k)

SpecHover == InitCalc(HoverSamples) /\ [][NextHover]_vars

SpecResample == InitCalc(SortedSamples) /\ [][NextResample]_vars

\* resampleTimeSeries over inputs of every span of SpanValues.
NextWidth == Resample

SpecWidth == InitCalc(SpanSamples) /\ [][NextWidth]_vars

\* Rows handed to the statistics: timestamps and counts around the target.
StatTs == {0, 60, 120}

StatCounts == {4490, 4500, TARGET_SIGNUPS, 5010}

RECURSIVE StatRowsOfLen(_)
StatRowsOfLen(n) ==
    IF n = 0 THEN {<<>>}
    ELSE {Append(s, [timestamp |-> ts, count |-> c]) :
              s \in StatRowsOfLen(n - 1), ts \in StatTs, c \in StatCounts}

StatRows == {s \in UNION {StatRowsOfLen(n) : n \in 2..MaxSamples} : Sorted(s)}

\* The statistics are computed from the rows at the instant now.
ComputeStats(now) ==
    /\ calc.stats = Null
    /\ Len(calc.series) > 1
    /\ calc' = [calc EXCEPT !.now = now, !.stats = computeStats(calc.series, now)]
    /\ UNCHANGED <<table, cyc, view, timeRange, interval, channel, mounted, finished, evt>>

NextStats == \E now \in NowValues : ComputeStats(now)

SpecStats == InitCalc(StatRows) /\ [][NextStats]_vars

\* interpCount over every sorted series.
NextValueAt == \E t \in Instants : ValueAt(t)

SpecValueAt == InitCalc(SortedSeries) /\ [][NextValueAt]_vars

\* peakHourly over every series, sorted or not.
NextPeak == Peak

SpecPeak == InitCalc(AllSeries) /\ [][NextPeak]_vars

\* The whole system.
Init == InitWith(Tables)

Next ==
    \/ \E c \in Cycles, e \in BOOLEAN : ProbeReturns(c, e)
    \/ \E c \in Cycles : QueryThrows(c)
    \/ \E c \in Cycles, now \in NowValues : PageError(c, now)
    \/ \E c \in Cycles, now \in NowValues : PageReturns(c, now)
    \/ \E c \in Cycles, now \in NowValues : PageRepeats(c, now)
    \/ \E c \in Cycles : TimeoutFires(c)
    \/ \E c \in Cycles : IntervalFires(c)
    \/ \E p \in Payloads : PushArrives(p)
    \/ \E r \in TimeRanges : SetTimeRange(r)
    \/ \E ts \in TsValues, c \in CountValues : JobAppends(ts, c)
    \/ \E b \in BOOLEAN : Teardown(b)

Spec == Init /\ [][Next]_vars

\* One fetch cycle against any table and any backend behaviour.
NextPager ==
    \/ \E e \in BOOLEAN : ProbeReturns(1, e)
    \/ QueryThrows(1)
    \/ \E now \in NowValues : PageError(1, now)
    \/ \E now \in NowValues : PageReturns(1, now)
    \/ \E now \in NowValues : PageRepeats(1, now)
    \/ TimeoutFires(1)
    \/ \E ts \in TsValues, c \in CountValues : JobAppends(ts, c)

SpecPager == Init /\ [][NextPager]_vars

\* Tables of well-formed data: timestamps ascending, counts non-decreasing.
WellFormed(t) ==
    \A i \in 1..Len(t) : \A j \in 1..Len(t) :
        i < j => t[i].timestamp < t[j].timestamp /\ t[i].count <= t[j].count

WellFormedTables == {t \in Tables : WellFormed(t)}

\* The job appends a row that keeps the table well formed.
JobAppendsLater(ts, c) ==
    /\ WellFormed(Append(table, TableRow(Len(table) + 1, ts, c)))
    /\ JobAppends(ts, c)

\* The payloads of an insert of count 123 and of an unparsable row.
FewPayloads ==
    { Payload(TRUE, RowObject(JsString(<<"1", "2", "3">>)), RowNullish),
      Payload(TRUE, RowObject(JsString(<<"a", "b", "c">>)), RowObject(JsNumber(2))) }

\* One fetch cycle of well-formed data with the push handler and the range
\* buttons live.
NextLive ==
    \/ \E e \in BOOLEAN : ProbeReturns(1, e)
    \/ \E now \in NowValues : PageReturns(1, now)
    \/ \E now \in NowValues : PageError(1, now)
    \/ TimeoutFires(1)
    \/ \E p \in Payloads : PushArrives(p)
    \/ \E r \in TimeRanges : SetTimeRange(r)

SpecLive == InitWith(WellFormedTables) /\ [][NextLive]_vars

\* Overlapping fetch cycles (identifier-keyset) over a growing table, with
\* page errors, rejected queries and push events.
NextCycles ==
    \/ \E c \in Cycles : ProbeReturns(c, FALSE)
    \/ \E c \in Cycles : QueryThrows(c)
    \/ \E c \in Cycles, now \in NowValues : PageError(c, now)
    \/ \E c \in Cycles, now \in NowValues : PageReturns(c, now)
    \/ \E c \in Cycles : TimeoutFires(c)
    \/ \E c \in Cycles : IntervalFires(c)
    \/ \E p \in FewPayloads : PushArrives(p)
    \/ \E ts \in TsValues, c \in CountValues : JobAppendsLater(ts, c)

SpecCycles == InitWith(WellFormedTables) /\ [][NextCycles]_vars

\* The life of the view up to and after its teardown.
NextTeardown ==
    \/ \E c \in Cycles, e \in BOOLEAN : ProbeReturns(c, e)
    \/ \E c \in Cycles, now \in NowValues : PageReturns(c, now)
    \/ \E c \in Cycles : TimeoutFires(c)
    \/ \E c \in Cycles : IntervalFires(c)
    \/ \E p \in FewPayloads : PushArrives(p)
    \/ \E b \in BOOLEAN : Teardown(b)

SpecTeardown == InitWith(WellFormedTables) /\ [][NextTeardown]_vars

\* An awaited network call of cycle c returns: with a result, with an
\* error, by rejecting, or (faulty backend) with a page it did not ask for.
Responds(c) ==
    \/ \E e \in BOOLEAN : ProbeReturns(c, e)
    \/ QueryThrows(c)
    \/ \E now \in NowValues : PageError(c, now)
    \/ \E now \in NowValues : PageReturns(c, now)
    \/ \E now \in NowValues : PageRepeats(c, now)

\* Fetch cycles started at mount and by the timer, every outcome of every
\* network call allowed, and every network call returning eventually.
NextResponsive ==
    \/ \E c \in Cycles : Responds(c)
    \/ \E c \in Cycles : TimeoutFires(c)
    \/ \E c \in Cycles : IntervalFires(c)

SpecResponsive ==
    /\ InitWith(WellFormedTables)
    /\ [][NextResponsive]_vars
    /\ \A c \in Cycles : WF_vars(Responds(c))

\* ================================================================= claims
Ended(c) == cyc[c].pc = "done"

\* The cycle met no page error, no rejected query and no backend fault, and
\* the table is the one it started on.
Undisturbed(c) ==
    /\ ~cyc[c].errored
    /\ ~cyc[c].faulty
    /\ ~cyc[c].grown
    /\ cyc[c].end # "thrown"

BelowCap(t) == Len(t) < PAGE_SIZE * SAFETY_LIMIT

\* The raw rows of the table in the orders ORDER BY key ASC allows.
InKeyOrder(t, hasId) ==
    {[i \in 1..Len(o) |-> RawRow(o[i])] : o \in Orderings(RowsOf(t), hasId)}

CeilDiv(a, b) == (a + b - 1) \div b

\* C1: with no page error, a fetch cycle over a table of N rows (N below
\* page size x page cap) collects exactly the N rows, each once, in ascending
\* key order, under either pagination strategy and for any table contents,
\* rows sharing a timestamp included.
C1_CollectsEveryRowOnce ==
    \A c \in Cycles :
        (Ended(c) /\ Undisturbed(c) /\ BelowCap(table))
            => cyc[c].allRows \in InKeyOrder(table, cyc[c].hasId)

C3_RequestsWithinCap ==
    \A c \in Cycles : cyc[c].requests <= SAFETY_LIMIT

LatestOf(rows) == rows[Len(rows)]

\* The cycle c has just run the statements after its pagination loop.
JustFetched(c) == evt = Event("fetched", c)

\* C9 as stated: when a page query errors after k >= 1 pages succeeded, the
\* cycle publishes Series, current count and Stats computed from the rows of
\* those pages.
C9_PartialPublishedWithStats ==
    \A c \in Cycles :
        (JustFetched(c) /\ cyc[c].errored /\ cyc[c].safety >= 1)
            => /\ cyc[c].end = "committed"
               /\ data = hourlyData(cyc[c].allRows)
               /\ currentCount = LatestOf(cyc[c].allRows).count
               /\ \E now \in NowValues : stats = computeStats(cyc[c].allRows, now)

\* C9 amended: when a page query errors after k >= 1 pages succeeded, the
\* loop halts, no exception reaches the caller, and the cycle publishes
\* Series, current count and last-updated computed from the rows of those
\* pages; it publishes Stats computed from them when they are at least 2
\* rows, and leaves Stats as it was when they are a single row.
C9_PartialPublished ==
    [][\A c \in Cycles :
          (cyc[c].pc = "page" /\ cyc'[c].pc = "done" /\ cyc'[c].errored /\ cyc'[c].safety >= 1)
              => LET rows == cyc'[c].allRows
                 IN  /\ cyc'[c].end = "committed"
                     /\ rows = cyc[c].allRows
                     /\ Len(rows) >= cyc[c].safety
                     /\ data' = hourlyData(rows)
                     /\ currentCount' = LatestOf(rows).count
                     /\ ~loading'
                     /\ \E now \in NowValues :
                            /\ lastUpdated' = lastUpdatedLabel(LatestOf(rows), now)
                            /\ stats' = IF Len(rows) >= 2 THEN computeStats(rows, now) ELSE stats
      ]_vars

C9_Witness ==
    \E c \in Cycles :
        /\ JustFetched(c) /\ cyc[c].errored /\ cyc[c].safety >= 1
        /\ Len(cyc[c].allRows) >= 2
        /\ stats # Null
        /\ stats.totalSignups = LatestOf(cyc[c].allRows).count

\* C4: a push event changes at most the displayed count and the
\* last-updated text: Series, Stats, loading flag and selected range are
\* unchanged by every push event, whatever the payload.
C4_PushLeavesSeriesAndStats ==
    [][evt'.name = "push" => UNCHANGED <<data, stats, loading, timeRange>>]_vars

C4_Witness ==
    /\ evt.name = "push"
    /\ currentCount = 123
    /\ stats # Null
    /\ data # <<>>
    /\ ~loading
    /\ timeRange # "all"

\* The row `new ?? old` of a payload, and whether it carries a count that
\* coerces to a number.
RowOf(p) == IF p.new.k = "nullish" THEN p.old ELSE p.new

CarriesNumber(p) == p.isObject /\ RowOf(p).k = "object" /\ ~IsNaN(ToNumber(RowOf(p).count))

Insert123 == Payload(TRUE, RowObject(JsString(<<"1", "2", "3">>)), RowNullish)

InsertAbc == Payload(TRUE, RowObject(JsString(<<"a", "b", "c">>)), RowObject(JsNumber(2)))

\* C5: the push handler sets the displayed count to n and last-updated to
\* '< 1 min ago' exactly when the row `new ?? old` carries a count that
\* coerces to the number n ("123" gives 123); for every other payload (no
\* row, count missing, count not numeric such as "abc") nothing changes.
C5_PushSetsCountIffNumeric ==
    [][/\ \A p \in Payloads :
              PushArrives(p) =>
                  IF CarriesNumber(p)
                  THEN /\ currentCount' = ToNumber(RowOf(p).count).n
                       /\ lastUpdated' = LabelLessThanMinute
                  ELSE UNCHANGED <<view, timeRange, table, cyc>>
       /\ PushArrives(Insert123) => currentCount' = 123
       /\ PushArrives(InsertAbc) => UNCHANGED <<view, timeRange>>
      ]_vars

C5_Witness ==
    /\ evt.name = "push"
    /\ currentCount = 123
    /\ lastUpdated = LabelLessThanMinute
    /\ data # <<>>

\* The cycle that finished last, and the last one to finish having
\* published at least k rows (0 when there is none).
LastFinished == finished[Len(finished)]

LastWith(k) ==
    LET I == {i \in 1..Len(finished) :
                 cyc[finished[i]].end \in {"committed", "empty"} /\ Len(cyc[finished[i]].allRows) >= k}
    IN  IF I = {} THEN 0 ELSE finished[CHOOSE i \in I : \A j \in I : j <= i]

\* What a cycle's rows make of the series and of the stats.
SeriesOf(rows) == hourlyData(rows)

StatsOf(rows) ==
    IF Len(rows) >= 2 THEN {computeStats(rows, now) : now \in NowValues} ELSE {Null}

\* C6 as stated: whenever the fetch cycle that finished last published its
\* rows, the stored Series and the Stats snapshot were both computed from
\* that cycle's row set.
C6_SeriesAndStatsFromLastFinisher ==
    (finished # <<>> /\ cyc[LastFinished].end = "committed") =>
        /\ data = SeriesOf(cyc[LastFinished].allRows)
        /\ stats \in StatsOf(cyc[LastFinished].allRows)

\* C6 amended: each fetch cycle commits in one step; at every state the
\* Series was computed from the rows of the last cycle to finish with at
\* least one row, and the Stats snapshot, as a whole, from the rows of the
\* last cycle to finish with at least two rows (the same cycle unless a
\* later one collected 0 or 1 rows); with no such cycle they are initial.
C6_SeriesAndStatsEachFromOneCycle ==
    /\ data = IF LastWith(1) = 0 THEN <<>> ELSE SeriesOf(cyc[LastWith(1)].allRows)
    /\ IF LastWith(2) = 0 THEN stats = Null ELSE stats \in StatsOf(cyc[LastWith(2)].allRows)

C6_Witness ==
    /\ finished = <<2, 1>>
    /\ LastWith(1) = 1
    /\ LastWith(2) = 1
    /\ cyc[2].end = "committed"
    /\ cyc[1].allRows # cyc[2].allRows
    /\ stats # Null

C8_NoStatsAfterShortCycle ==
    (/\ finished # <<>>
     /\ cyc[LastFinished].end # "thrown"
     /\ Len(cyc[LastFinished].allRows) < 2) => stats = Null

\* C8 amended: a fetch cycle that collects fewer than 2 rows leaves the
\* Stats snapshot as it was; Stats is present exactly when some completed
\* cycle published at least 2 rows.
C8_StatsIffSomeCycleHadTwoRows ==
    /\ []((stats # Null) <=> (LastWith(2) # 0))
    /\ [][\A c \in Cycles :
             (cyc[c].pc # "done" /\ cyc'[c].pc = "done" /\ Len(cyc'[c].allRows) < 2)
                 => stats' = stats]_vars

C8_Witness ==
    /\ finished # <<>>
    /\ JustFetched(LastFinished)
    /\ Len(cyc[LastFinished].allRows) = 1
    /\ stats = Null
    /\ data # <<>>

\* C10: a fetch cycle that collects zero rows clears the loading flag and
\* changes nothing else: Series, Stats, displayed count and last-updated
\* keep their values.
C10_EmptyCycleOnlyClearsLoading ==
    [][\A c \in Cycles :
          (cyc[c].pc # "done" /\ cyc'[c].pc = "done" /\ cyc'[c].end # "thrown"
              /\ cyc'[c].allRows = <<>>)
              => (~loading' /\ UNCHANGED <<data, stats, currentCount, lastUpdated>>)
      ]_vars

C10_Witness ==
    \E c \in Cycles :
        /\ JustFetched(c)
        /\ cyc[c].end = "empty"
        /\ ~loading
        /\ stats # Null
        /\ data # <<>>

\* C11: assuming every network call eventually returns, every fetch cycle
\* that starts ends (probe error, page error, zero rows, success, rejected
\* query, backend that never returns a short page), and from the moment it
\* has ended the loading flag is cleared.
C11_EveryCycleEndsWithLoadingCleared ==
    /\ \A c \in Cycles : (cyc[c].pc = "probe") ~> (Ended(c) /\ ~loading)
    /\ [](\A c \in Cycles : Ended(c) => ~loading)

C11_Witness ==
    \E c \in Cycles :
        /\ Ended(c) /\ ~loading
        /\ cyc[c].faulty
        /\ cyc[c].safety > SAFETY_LIMIT
        /\ \E b \in Cycles : cyc[b].end = "thrown"

\* C12: in each fetch cycle the probe fixes the strategy once (identifier
\* keyset when it returns without error, timestamp keyset otherwise); the
\* first page request orders by the chosen key and has no lower bound, and
\* every later request orders by the same key and has, as its exclusive
\* lower bound, the key of the last row of the page that arrived before it.
C12_StrategyOnceAndKeysetBound ==
    [][\A c \in Cycles :
          /\ \A e \in BOOLEAN :
                 ProbeReturns(c, e) =>
                     /\ cyc'[c].hasId = ~e
                     /\ cyc'[c].requests = 1
                     /\ cyc'[c].query = [orderBy |-> IF e THEN "timestamp" ELSE "id", gt |-> NoKey]
          /\ cyc[c].pc \notin {"idle", "probe"} => cyc'[c].hasId = cyc[c].hasId
          /\ (cyc[c].pc = "page" /\ cyc'[c].requests = cyc[c].requests + 1) =>
                 LET byId == cyc[c].hasId
                     answers == Pages(table, byId, cyc[c].query.gt) \cup Pages(table, byId, NoKey)
                 IN  /\ cyc'[c].query.orderBy = cyc[c].query.orderBy
                     /\ \E batch \in answers :
                            /\ batch # <<>>
                            /\ cyc'[c].allRows =
                                   cyc[c].allRows \o [i \in 1..Len(batch) |-> RawRow(batch[i])]
                            /\ cyc'[c].query.gt = KeyOf(byId, batch[Len(batch)])
      ]_vars

C12_Witness ==
    \E c \in Cycles :
        /\ cyc[c].pc = "page"
        /\ ~cyc[c].hasId
        /\ ~cyc[c].faulty
        /\ cyc[c].requests = 2
        /\ cyc[c].query = [orderBy |-> "timestamp", gt |-> 30]
        /\ Len(cyc[c].allRows) = PAGE_SIZE

\* The rows of a collected row set whose timestamp falls in the hour h, and
\* those of them that are chronologically last.
InHour(rows, h) == {i \in 1..Len(rows) : TruncHour(rows[i].timestamp) = h}

LastInHour(rows, h) ==
    {i \in InHour(rows, h) : \A j \in InHour(rows, h) : rows[j].timestamp <= rows[i].timestamp}

\* C13: in the Series a fetch cycle stores, the count kept for each hour is
\* the count of the chronologically last raw row (greatest timestamp) among
\* the collected rows of that hour, under both pagination strategies.
C13_HourKeepsChronologicallyLast ==
    \A c \in Cycles :
        (JustFetched(c) /\ Undisturbed(c) /\ cyc[c].end = "committed") =>
            \A k \in 1..Len(data) :
                \E i \in LastInHour(cyc[c].allRows, data[k].timestamp) :
                    data[k].count = cyc[c].allRows[i].count

\* The same under timestamp-keyset pagination only.
C13_UnderTimestampKeyset ==
    \A c \in Cycles :
        (JustFetched(c) /\ Undisturbed(c) /\ cyc[c].end = "committed" /\ ~cyc[c].hasId) =>
            \A k \in 1..Len(data) :
                \E i \in LastInHour(cyc[c].allRows, data[k].timestamp) :
                    data[k].count = cyc[c].allRows[i].count

HoursOf(rows) == {TruncHour(rows[i].timestamp) : i \in 1..Len(rows)}

\* C14: the Series a fetch cycle stores has exactly one sample for every
\* hour that holds at least one collected row and none for any other hour;
\* its timestamps are tops of hours, pairwise distinct and strictly
\* ascending.
C14_OneSamplePerHourAscending ==
    \A c \in Cycles :
        (JustFetched(c) /\ cyc[c].end = "committed") =>
            /\ {data[k].timestamp : k \in 1..Len(data)} = HoursOf(cyc[c].allRows)
            /\ Len(data) = Cardinality(HoursOf(cyc[c].allRows))
            /\ \A k \in 1..Len(data) : data[k].timestamp % hour = 0
            /\ \A j, k \in 1..Len(data) : j < k => data[j].timestamp < data[k].timestamp

C14_Witness ==
    \E c \in Cycles :
        /\ JustFetched(c) /\ cyc[c].end = "committed"
        /\ Len(cyc[c].allRows) = 3
        /\ Len(data) = 2
        /\ cyc[c].allRows[1].timestamp = 60
        /\ cyc[c].allRows[2].timestamp = 30
        /\ cyc[c].allRows[3].timestamp = 0

\* The most recent rows of a collected row set: those of greatest timestamp.
MostRecent(rows) ==
    {i \in 1..Len(rows) : \A j \in 1..Len(rows) : rows[j].timestamp <= rows[i].timestamp}

\* C15: when a fetch cycle over a non-empty row set commits, the displayed
\* count and (with at least 2 rows) stats.totalSignups are the count of the
\* most recent raw row, the collected row of greatest timestamp.
C15_CountIsMostRecentRow ==
    \A c \in Cycles :
        (JustFetched(c) /\ Undisturbed(c) /\ cyc[c].end = "committed") =>
            LET rows == cyc[c].allRows
            IN  /\ \E i \in MostRecent(rows) : currentCount = rows[i].count
                /\ Len(rows) >= 2 =>
                       /\ stats # Null
                       /\ \E i \in MostRecent(rows) : stats.totalSignups = rows[i].count

\* The same under timestamp-keyset pagination only.
C15_UnderTimestampKeyset ==
    \A c \in Cycles :
        (JustFetched(c) /\ Undisturbed(c) /\ cyc[c].end = "committed" /\ ~cyc[c].hasId) =>
            LET rows == cyc[c].allRows
            IN  /\ \E i \in MostRecent(rows) : currentCount = rows[i].count
                /\ Len(rows) >= 2 =>
                       /\ stats # Null
                       /\ \E i \in MostRecent(rows) : stats.totalSignups = rows[i].count

\* The evaluation of interpCount made last.
LastEval == calc.evals[Len(calc.evals)]

Evaluated == calc.evals # <<>>

FirstPoint == calc.series[1]

LastPoint == calc.series[Len(calc.series)]

\* C16 as stated: for a non-empty series sorted by timestamp, interpCount
\* at an instant at or before the first point's timestamp is exactly the
\* first point's count, and at an instant at or after the last point's
\* timestamp exactly the last point's count.
C16_ClampsToBoundaryCount ==
    (Evaluated /\ Sorted(calc.series)) =>
        /\ LastEval.t <= FirstPoint.timestamp => LastEval.value = FromInt(FirstPoint.count)
        /\ LastEval.t >= LastPoint.timestamp => LastEval.value = FromInt(LastPoint.count)

\* C16 amended: for a non-empty series sorted by timestamp, interpCount at
\* an instant at or before the first point's timestamp is exactly the first
\* point's count; at an instant at or after the last point's timestamp and
\* after the first point's it is exactly the last point's count.  (When
\* every point has the same timestamp, the first point's count is returned
\* at that instant.)
C16_ClampsFirstThenLast ==
    (Evaluated /\ Sorted(calc.series)) =>
        /\ LastEval.t <= FirstPoint.timestamp => LastEval.value = FromInt(FirstPoint.count)
        /\ (LastEval.t >= LastPoint.timestamp /\ LastEval.t > FirstPoint.timestamp)
               => LastEval.value = FromInt(LastPoint.count)

C16_Witness ==
    /\ Len(calc.evals) = 2
    /\ Len(calc.series) = 3
    /\ FirstPoint.timestamp = 30 /\ FirstPoint.count = 2
    /\ LastPoint.timestamp = 120 /\ LastPoint.count = 3
    /\ calc.evals[1].t = -30 /\ calc.evals[1].value = FromInt(2)
    /\ calc.evals[2].t = 150 /\ calc.evals[2].value = FromInt(3)

\* The points of the series whose timestamp is t.
PointsAt(t) == {i \in 1..Len(calc.series) : calc.series[i].timestamp = t}

\* C17 as stated: for a series sorted ascending by timestamp and any of its
\* points, interpCount at the point's timestamp is the point's count.
C17_ExactAtEveryPoint ==
    (Evaluated /\ Sorted(calc.series)) =>
        \A i \in PointsAt(LastEval.t) : LastEval.value = FromInt(calc.series[i].count)

\* C17 amended: for a series sorted ascending by timestamp, interpCount at
\* the timestamp of a point is the count of a point of that timestamp: the
\* point's own count when no other point shares its timestamp, the count
\* of one of the points sharing it otherwise.
C17_ExactAtSomePointOfTheInstant ==
    (Evaluated /\ Sorted(calc.series) /\ PointsAt(LastEval.t) # {}) =>
        \E i \in PointsAt(LastEval.t) : LastEval.value = FromInt(calc.series[i].count)

C17_Witness ==
    /\ Evaluated
    /\ calc.series = <<[timestamp |-> 0, count |-> 0], [timestamp |-> 30, count |-> 3],
                       [timestamp |-> 60, count |-> 2], [timestamp |-> 120, count |-> 0]>>
    /\ LastEval = [t |-> 60, value |-> FromInt(2)]

NonDecreasingCounts(s) == \A i \in 1..Len(s) : \A j \in 1..Len(s) : i < j => s[i].count <= s[j].count

\* a <= b for numbers that are not NaN
NumLe(a, b) == ~IsNaN(a) /\ ~IsNaN(b) /\ ~NumGt(a, b)

\* The straight line through the points i and i + 1 of the series, at t.
OnLine(i, t) ==
    LET pL == calc.series[i]
        pR == calc.series[i + 1]
    IN  Num(pL.count * (pR.timestamp - pL.timestamp) + (pR.count - pL.count) * (t - pL.timestamp),
            pR.timestamp - pL.timestamp)

\* C18: for a series sorted ascending by timestamp with non-decreasing
\* counts, interpCount is non-decreasing in t (of two evaluations, the one
\* at the later instant is not the smaller), and at an instant between the
\* timestamps of two neighbouring points its value lies on the straight
\* line through them.
C18_MonotoneAndLinearBetweenNeighbours ==
    (Sorted(calc.series) /\ NonDecreasingCounts(calc.series)) =>
        /\ Len(calc.evals) = 2 =>
               /\ calc.evals[1].t <= calc.evals[2].t
                      => NumLe(calc.evals[1].value, calc.evals[2].value)
               /\ calc.evals[2].t <= calc.evals[1].t
                      => NumLe(calc.evals[2].value, calc.evals[1].value)
        /\ Evaluated =>
               \A i \in 1..(Len(calc.series) - 1) :
                   (calc.series[i].timestamp < LastEval.t
                       /\ LastEval.t < calc.series[i + 1].timestamp)
                       => LastEval.value = OnLine(i, LastEval.t)

C18_Witness ==
    /\ calc.series = <<[timestamp |-> 0, count |-> 0], [timestamp |-> 30, count |-> 2],
                       [timestamp |-> 60, count |-> 3]>>
    /\ calc.evals = <<[t |-> 15, value |-> FromInt(1)], [t |-> 45, value |-> Num(5, 2)]>>

PeakEvaluated == calc.peak # Null

\* C19: the peak-per-hour estimate is a number >= 0 for every series,
\* sorted or not, series in which a later point has a lower count than an
\* earlier one included; it is 0 for a series of fewer than 2 points.
C19_PeakNeverNegative ==
    PeakEvaluated =>
        /\ NumLe(FromInt(0), calc.peak)
        /\ Len(calc.series) < 2 => calc.peak = FromInt(0)

C19_Witness ==
    /\ PeakEvaluated
    /\ calc.series = <<[timestamp |-> 0, count |-> 3], [timestamp |-> 30, count |-> 2],
                       [timestamp |-> 60, count |-> 0]>>
    /\ calc.peak = FromInt(0)

\* The instants at which the increase over the preceding hour can change
\* slope: the timestamps of the points and the instants one hour after them.
WindowEnds == {0, 30, 60, 90, 120, 150, 180}

\* The increase of the interpolated count over the hour ending at t.
Rise(t) == NumSub(interpCount(calc.series, t), interpCount(calc.series, t - oneHourMs))

\* points of pairwise distinct timestamps, in ascending order
StrictlySorted(s) == \A i \in 1..Len(s) : \A j \in 1..Len(s) : i < j => s[i].timestamp < s[j].timestamp

\* C20: for a sorted series (here: of pairwise distinct timestamps) with
\* non-decreasing counts, the peak-per-hour estimate is the maximum, over
\* every instant t, of the increase of the interpolated count over the hour
\* ending at t.
C20_PeakIsMaxOverEveryWindow ==
    (PeakEvaluated /\ calc.series # <<>> /\ StrictlySorted(calc.series)
        /\ NonDecreasingCounts(calc.series)) =>
        /\ \A t \in WindowEnds : NumLe(Rise(t), calc.peak)
        /\ \E t \in WindowEnds : Rise(t) = calc.peak

\* The estimate is the maximum over the windows ending at a point's timestamp.
C20_PeakIsMaxOverWindowsEndingAtPoints ==
    (PeakEvaluated /\ Len(calc.series) >= 2 /\ Sorted(calc.series) /\ NonDecreasingCounts(calc.series)) =>
        /\ \A i \in 1..Len(calc.series) : NumLe(Rise(calc.series[i].timestamp), calc.peak)
        /\ \E i \in 1..Len(calc.series) : Rise(calc.series[i].timestamp) = calc.peak

\* The input of resampleTimeSeries: first and last timestamp, span, width.
FirstTs == calc.series[1].timestamp

LastTs == calc.series[Len(calc.series)].timestamp

Span == LastTs - FirstTs

\* The chart has been rendered.
Charted == calc.charted

\* C21: for a non-empty sorted input of span S and chosen width w the
\* resampler outputs exactly floor(S / w) + 1 buckets, whose start times
\* are first timestamp + k * w for k = 0, 1, ..., strictly ascending; the
\* last bucket's interval contains the last sample's time.  An empty input
\* gives an empty output.
C21_BucketCountAndStarts ==
    Charted =>
        IF calc.series = <<>> THEN calc.resampled = <<>>
        ELSE LET w == bucketMsOf(Span)
                 n == Len(calc.resampled)
             IN  /\ w > 0
                 /\ n = (Span \div w) + 1
                 /\ \A k \in 1..n : calc.resampled[k].timestamp = FirstTs + (k - 1) * w
                 /\ \A k \in 1..(n - 1) :
                        calc.resampled[k].timestamp < calc.resampled[k + 1].timestamp
                 /\ calc.resampled[n].timestamp <= LastTs
                 /\ LastTs < calc.resampled[n].timestamp + w

C21_Witness ==
    /\ Charted
    /\ calc.series # <<>>
    /\ Span = 21660
    /\ Len(calc.resampled) = 181
    /\ calc.resampled[181].timestamp = 21600

\* The input samples whose time lies in the interval of the k-th bucket.
SamplesIn(k) ==
    {i \in 1..Len(calc.series) :
        /\ calc.series[i].timestamp >= calc.resampled[k].timestamp
        /\ calc.series[i].timestamp < calc.resampled[k].timestamp + bucketMsOf(Span)}

\* C22: in the resampler's output every bucket whose interval
\* [start, start + width) contains no input sample has an absent count.
C22_EmptyBucketsAreAbsent ==
    (Charted /\ calc.series # <<>>) =>
        \A k \in 1..Len(calc.resampled) : SamplesIn(k) = {} => calc.resampled[k].absent

C22_Witness ==
    /\ Charted
    /\ calc.series # <<>>
    /\ Span = 600
    /\ Len(calc.resampled) = 61
    /\ \A k \in 2..60 : calc.resampled[k].absent
    /\ ~calc.resampled[1].absent
    /\ ~calc.resampled[61].absent

\* max(ceil(S / 240), 1 hour) in milliseconds, for a span S in minutes
\* (S / 240 is a whole number of milliseconds).
ApproxMs(S) == Max(S * (MsPerMinute \div TARGET_POINTS), hour * MsPerMinute)

\* w (minutes) is m (milliseconds) rounded to the nearest multiple of unit
\* (minutes); at a tie either neighbour will do.
NearestMultiple(w, m, unit) ==
    /\ w % unit = 0
    /\ 2 * Abs(w * MsPerMinute - m) <= unit * MsPerMinute

\* The width the table of the claim gives for a span S.
TableWidth(w, S) ==
    IF S <= hour THEN w = minute
    ELSE IF S <= day THEN w = 10 * minute
    ELSE IF S <= 7 * day THEN w = hour
    ELSE IF ApproxMs(S) <= 24 * hour * MsPerMinute THEN NearestMultiple(w, ApproxMs(S), hour)
    ELSE NearestMultiple(w, ApproxMs(S), day)

\* C23: for every span S of a non-empty input the bucket width chosen is
\* 1 minute when S <= 1 hour, 10 minutes when 1 hour < S <= 1 day, 1 hour
\* when 1 day < S <= 7 days, otherwise max(ceil(S / 240), 1 hour) rounded
\* to the nearest whole hour when that is at most 24 hours, else to the
\* nearest whole day; it is positive, and 1 hour for a span of 10 days.
C23_WidthTable ==
    (Charted /\ calc.series # <<>>) =>
        /\ calc.bucketMs > 0
        /\ TableWidth(calc.bucketMs, Span)
        /\ Span = 10 * day => calc.bucketMs = hour

\* The table holds for every span of less than 355 days.
C23_WidthTableBelow355Days ==
    (Charted /\ calc.series # <<>> /\ Span < 355 * day) =>
        /\ calc.bucketMs > 0
        /\ TableWidth(calc.bucketMs, Span)
        /\ Span = 10 * day => calc.bucketMs = hour

\* The statistics have been computed from the rows of calc.series.
Computed == calc.stats # Null

\* TARGET_SIGNUPS - latest.count
Remaining == TARGET_SIGNUPS - calc.series[Len(calc.series)].count

\* C24: the estimated completion is present, and daysRemaining is
\* ceil((target - latest.count) / averagePerHour / 24), exactly when
\* averagePerHour > 0 and target - latest.count > 0; otherwise the estimate
\* is absent and daysRemaining is 0.  With target 5000, latest count 4500
\* and an average of 10 per hour, daysRemaining is 3 and the estimate is
\* 50 hours after now.
C24_EstimateExactlyWhenGrowingBelowTarget ==
    Computed =>
        LET st == calc.stats
            avg == st.averagePerHour
        IN  /\ IF NumGt(avg, FromInt(0)) /\ Remaining > 0
               THEN /\ st.estimatedCompletion # Null
                    /\ st.daysRemaining =
                           CeilInt(NumDiv(NumDiv(FromInt(Remaining), avg), FromInt(24)))
               ELSE /\ st.estimatedCompletion = Null
                    /\ st.daysRemaining = 0
            /\ (Remaining = 500 /\ avg = FromInt(10)) =>
                   /\ st.daysRemaining = 3
                   /\ st.estimatedCompletion = FromInt(calc.now + 50 * hour)

\* Both sides of C24 happen: 4490 at 00:00 and 4500 at 01:00 give 10 per
\* hour and an estimate 50 hours and 3 days ahead.
C24_Witness ==
    /\ Computed
    /\ Remaining = 500
    /\ calc.stats.averagePerHour = FromInt(10)
    /\ calc.stats.daysRemaining = 3
    /\ calc.stats.estimatedCompletion = FromInt(calc.now + 50 * hour)

\* The other side of C24: a positive average at or past the target.
C24_WitnessPastTarget ==
    /\ Computed
    /\ Remaining < 0
    /\ NumGt(calc.stats.averagePerHour, FromInt(0))
    /\ calc.stats.estimatedCompletion = Null

\* The pointer j after each of the iterations lo..hi of the bucket loop,
\* entered with the pointer at j (halved as BucketLoop is, first half
\* first).
RECURSIVE PointerTrace(_, _, _)
PointerTrace(lo, hi, j) ==
    IF lo > hi THEN <<>>
    ELSE IF lo = hi
         THEN <<BucketStep(calc.series, FirstTs + lo * bucketMsOf(Span), bucketMsOf(Span), j).j>>
    ELSE LET mid == (lo + hi) \div 2
             a == PointerTrace(lo, mid, j)
             b == PointerTrace(mid + 1, hi, a[Len(a)])
         IN  IF Len(a) = mid - lo + 1 THEN a \o b ELSE <<>>

\* The least element of a non-empty set of integers.
Least(S) == CHOOSE x \in S : \A y \in S : x <= y

\* C25: for a sorted input a bucket is non-absent exactly when at least
\* one sample lies in [start, start + width), and it carries the count of
\* the earliest such sample; the pointer into the input only moves forward
\* and the sample a bucket takes is one the pointer had not passed, so no
\* sample is assigned to more than one bucket.
C25_EarliestSampleOfEachBucket ==
    (Charted /\ calc.series # <<>>) =>
        LET n == Len(calc.resampled)
            P == PointerTrace(0, n - 1, 1)
            before(k) == IF k = 1 THEN 1 ELSE P[k - 1]
        IN  /\ Len(P) = n
            /\ \A k \in 1..n :
                   /\ P[k] >= before(k)
                   /\ calc.resampled[k].absent <=> SamplesIn(k) = {}
                   /\ ~calc.resampled[k].absent =>
                          /\ calc.resampled[k].count = calc.series[Least(SamplesIn(k))].count
                          /\ P[k] - 1 = Least(SamplesIn(k))
                          /\ P[k] - 1 >= before(k)

\* A bucket holding two samples of different counts carries the first
\* one's, and the walk goes on to an absent bucket and a later sample.
C25_Witness ==
    /\ Charted
    /\ Len(calc.series) = 3
    /\ calc.series[1].timestamp = 0
    /\ calc.series[2].timestamp = 1
    /\ calc.series[3].timestamp = 600
    /\ calc.series[1].count = 1
    /\ calc.series[2].count = 2
    /\ SamplesIn(1) = {1, 2}
    /\ calc.resampled[1].count = 1
    /\ calc.resampled[2].absent
    /\ ~calc.resampled[Len(calc.resampled)].absent

\* C26: at every state with loading cleared and currentCount at or above
\* the target, the estimated-completion field shows "Completed" rather
\* than a date, also when the count crossed the target through a push that
\* came after the last fetch computed the Stats.
C26_CompletedAtTarget ==
    (~loading /\ currentCount >= TARGET_SIGNUPS) =>
        EstimatedCompletionField = [text |-> "Completed"]

\* C27: once a push has set the count, the count changes only by a later
\* push or by the commit of a fetch cycle that finishes after the push; a
\* cycle that has committed never writes the count again.
C27_CountChangesOnlyByPushOrCommit ==
    [][currentCount' # currentCount => evt'.name \in {"push", "fetched"}]_vars

\* C28: after the view is torn down no write to the displayed state
\* (Series, Stats, current count, last-updated, loading) occurs, neither
\* from a fetch cycle in flight at the teardown nor from a pending delayed
\* count update.
C28_NoWriteAfterTeardown ==
    [][~mounted => UNCHANGED view]_vars

\* C29: for a non-empty sorted input the first and the last bucket of the
\* resampler's output are non-absent, so there is a non-absent bucket on
\* both sides of every absent bucket, and interpolateAtIndex, called for an
\* absent bucket, never returns 'no data'.
C29_AbsentBucketsAreEnclosed ==
    (Charted /\ calc.series # <<>>) =>
        LET n == Len(calc.resampled)
        IN  /\ n >= 1
            /\ ~calc.resampled[1].absent
            /\ ~calc.resampled[n].absent
            /\ \A k \in 1..n :
                   calc.resampled[k].absent =>
                       /\ \E l \in 1..(k - 1) : ~calc.resampled[l].absent
                       /\ \E r \in (k + 1)..n : ~calc.resampled[r].absent
            /\ calc.tip # Null => ~calc.tip.interp.nodata

\* The tooltip is over the bucket in the middle of a run of 11 absent
\* buckets, between a count of 1 on the left and 2 on the right, and
\* shows Math.round(1.5) = 2.
C29_Witness ==
    /\ Charted
    /\ Len(calc.resampled) = 13
    /\ calc.tip # Null
    /\ calc.tip.index = 6
    /\ \A k \in 2..12 : calc.resampled[k].absent
    /\ calc.resampled[1].count = 1
    /\ calc.resampled[13].count = 2
    /\ calc.tip.interp = Interp(2)

\* C30: for a non-empty input sorted by timestamp (here: of pairwise
\* distinct timestamps) and any span, the last bucket of the resampler's
\* output carries the count of the last input sample.
C30_LastBucketCarriesLastSample ==
    (Charted /\ calc.series # <<>> /\ StrictlySorted(calc.series)) =>
        LET last == calc.resampled[Len(calc.resampled)]
        IN  /\ ~last.absent
            /\ last.count = calc.series[Len(calc.series)].count

====
